---- MODULE Spec2Model ----
(***************************************************************************)
(* A model of the quick-commerce scraper: the browser session of           *)
(* scrapers/base.py, the Zepto, Blinkit and Instamart adapters, and the    *)
(* availability run of run_zepto_availability.py.                          *)
(*                                                                         *)
(* Every awaited page operation can fail (a Playwright error); the inputs  *)
(* of an operation say which of its page steps fail and what the page      *)
(* holds.  Prices are kept in hundredths of a rupee, so 19900 stands for   *)
(* the float 199.00.                                                       *)
(***************************************************************************)
EXTENDS Integers, Sequences, FiniteSets, TLC

VARIABLES
  pc,            \* position of main(): begin, start, pincode, probe, finally, save, done
  inputState,    \* the input file: missing, unreadable or ok
  data,          \* read_input_excel's grouping, in dict order: <<[pincode, urls]>>
  pi,            \* index in data of the pincode being processed
  ui,            \* index of the next URL of that pincode
  playwright,    \* self.playwright is set
  browser,       \* self.browser: "none" or the channel that launched
  context,       \* self.context is set
  page,          \* self.page is set
  launchLog,     \* the launch attempts of start(), in order: <<[channel, ok]>>
  startError,    \* what start() raised, "none" when it returned or was not called
  closeCalls,    \* the resources stop() called close()/stop() on
  stopCalls,     \* how many times stop() was invoked
  delivery_eta,  \* self.delivery_eta
  locOutcome,    \* per index of data: "none", "Confirmed" or "Failed"
  results,       \* main's results list
  logs,          \* the log records emitted, as <<message, pincode or 0>>
  written,       \* the rows written to the output file
  raised,        \* the exception main() ended with, "none" when it returned
  pending,       \* a BaseException on its way through main's finally
  platform,      \* the adapter a stand-alone scraper call is made on
  callIn,        \* that call's inputs (the URL and what the page does)
  callOut        \* what the call returned or raised

vars == <<pc, inputState, data, pi, ui, playwright, browser, context, page,
          launchLog, startError, closeCalls, stopCalls, delivery_eta,
          locOutcome, results, logs, written, raised, pending, platform,
          callIn, callOut>>

runVars == <<pc, inputState, data, pi, ui, playwright, browser, context, page,
             launchLog, startError, closeCalls, stopCalls, delivery_eta,
             locOutcome, results, logs, written, raised, pending>>

callVars == <<platform, callIn, callOut>>

\* ------------------------------------------------------------------ bounds
MaxRows == 3
MaxAnchors == 2

\* ------------------------------------------------------------- vocabulary
None == "None"
NoneInt == -1

Platforms == {"zepto", "blinkit", "instamart"}

Urls == {"u1", "u2"}

\* The identifier embedded in a product URL (pvid/<id>, prid/<id>); u2 has none.
UrlId(u) == IF u = "u1" THEN "a" ELSE "none"

SeqsUpTo(S, n) == UNION {[1..k -> S] : k \in 0..n}

Last(s) == s[Len(s)]

\* ---------------------------------------------------------- BaseScraper.start
browsers_to_try == <<"msedge", "chrome", "bundled">>

\* A launch loop without the break: every configuration is tried.
RECURSIVE LaunchLoopNoBreak(_, _)
LaunchLoopNoBreak(launches, i) ==
  IF i > Len(browsers_to_try) THEN <<>>
  ELSE <<[channel |-> browsers_to_try[i], ok |-> launches[i]]>>
         \o LaunchLoopNoBreak(launches, i + 1)

\* The launch loop: try each configuration from index i on, stop at the first
\* that launches.  launches[i] says whether configuration i can launch.
RECURSIVE LaunchLoop(_, _)
LaunchLoop(launches, i) ==
  IF i > Len(browsers_to_try) THEN <<>>
  ELSE IF launches[i]
       THEN <<[channel |-> browsers_to_try[i], ok |-> TRUE]>>
       ELSE <<[channel |-> browsers_to_try[i], ok |-> FALSE]>>
              \o LaunchLoop(launches, i + 1)

\* self.browser after the loop: the last configuration that launched.
LaunchedBrowser(log) ==
  LET oks == SelectSeq(log, LAMBDA a : a.ok)
  IN IF oks = <<>> THEN "none" ELSE Last(oks).channel

\* A start() without the "if not self.browser: raise" of lines 51-52.
StartNoRaise(pwOk, launches, ctxOk, pageOk) ==
  LET log == LaunchLoop(launches, 1)
      br  == LaunchedBrowser(log)
  IN IF ~pwOk
     THEN [playwright |-> FALSE, browser |-> "none", context |-> FALSE,
           page |-> FALSE, launchLog |-> <<>>, raised |-> "playwright error"]
     ELSE [playwright |-> TRUE, browser |-> br, context |-> ctxOk,
           page |-> ctxOk /\ pageOk, launchLog |-> log,
           raised |-> IF ~ctxOk \/ ~pageOk THEN "context error" ELSE "none"]

\* start(): the driver, the launch loop, the launch error, the context, the page.
Start(pwOk, launches, ctxOk, pageOk) ==
  LET log == LaunchLoop(launches, 1)
      br  == LaunchedBrowser(log)
  IN IF ~pwOk
     THEN [playwright |-> FALSE, browser |-> "none", context |-> FALSE,
           page |-> FALSE, launchLog |-> <<>>, raised |-> "playwright error"]
     ELSE IF br = "none"
     THEN [playwright |-> TRUE, browser |-> "none", context |-> FALSE,
           page |-> FALSE, launchLog |-> log, raised |-> "launch error"]
     ELSE IF ~ctxOk
     THEN [playwright |-> TRUE, browser |-> br, context |-> FALSE,
           page |-> FALSE, launchLog |-> log, raised |-> "context error"]
     ELSE IF ~pageOk
     THEN [playwright |-> TRUE, browser |-> br, context |-> TRUE,
           page |-> FALSE, launchLog |-> log, raised |-> "context error"]
     ELSE [playwright |-> TRUE, browser |-> br, context |-> TRUE,
           page |-> TRUE, launchLog |-> log, raised |-> "none"]

\* ----------------------------------------------------------- BaseScraper.stop
\* stop(): close the context, the browser, the driver, in this order; a close
\* that raises ends stop() there.  ctxOk, brOk, pwOk: whether each close works.
Stop(hasCtx, hasBr, hasPw, ctxOk, brOk, pwOk) ==
  LET c1 == IF hasCtx THEN {"context"} ELSE {}
      r1 == hasCtx /\ ~ctxOk
      c2 == IF ~r1 /\ hasBr THEN {"browser"} ELSE {}
      r2 == r1 \/ (hasBr /\ ~brOk)
      c3 == IF ~r2 /\ hasPw THEN {"playwright"} ELSE {}
      r3 == r2 \/ (hasPw /\ ~pwOk)
  IN [calls |-> c1 \cup c2 \cup c3, raised |-> r3]

\* ------------------------------------------------- ZeptoScraper.set_location
\* The text an ETA element can hold, and what re.search(r'(\d+\s*mins?)', text,
\* re.IGNORECASE) followed by group(1).lower() makes of it ("" when no match).
EtaTexts == {"8 Mins", "12 mins", "8 minutes", "Delivery soon"}

ZeptoEtaMatch(text) ==
  IF text = "8 Mins" THEN "8 mins"
  ELSE IF text = "12 mins" THEN "12 mins"
  ELSE IF text = "8 minutes" THEN "8 min"
  ELSE ""

\* What the page does during one set_location call.
\*   goto, primary, fallback, modal, typing, settle, screenshot: the step works
\*   sugg: "first" (list found, first item clicked), "generic" (empty list, the
\*         generic prediction clicked), "timeout" (the wait fails), "click fails"
\*   confirm: the Confirm button of the fallback flow is found and clicked
\*   etaSource: "direct" (the delivery-time element), "header", "none"
ZeptoLocInputs ==
  [goto : BOOLEAN, primary : BOOLEAN, fallback : BOOLEAN, modal : BOOLEAN,
   typing : BOOLEAN, sugg : {"first", "generic", "timeout", "click fails"},
   confirm : BOOLEAN, settle : BOOLEAN, etaSource : {"direct", "header", "none"},
   etaText : EtaTexts, screenshot : BOOLEAN]

\* The steps of the try block up to the fill: the first that raises ends in the
\* outer handler.
ZeptoLocFailure(l) ==
  IF ~l.goto THEN "goto"
  ELSE IF ~l.primary /\ ~l.fallback THEN "trigger"
  ELSE IF ~l.modal THEN "modal"
  ELSE IF ~l.typing THEN "typing"
  ELSE "none"

\* A handler whose screenshot is not guarded.
LocationCatchUnguarded(screenshotOk) == ~screenshotOk

\* The outer handler of set_location: the log, then the diagnostics inside a
\* try of their own.  TRUE when the handler itself raises.
LocationCatch(screenshotOk) == FALSE

\* The trigger whose click opened the location entry, and the clicks tried.
ZeptoTrigger(l) ==
  IF l.primary THEN "Select Location"
  ELSE IF l.fallback THEN "header location" ELSE "none"

ZeptoTriggersTried(l) ==
  IF l.primary THEN <<"Select Location">>
  ELSE <<"Select Location", "header location">>

ZeptoSetLocation(eta, l) ==
  LET fail == ZeptoLocFailure(l)
      text == IF l.etaSource = "none" THEN "N/A" ELSE l.etaText
      m    == ZeptoEtaMatch(text)
      suggOk == l.sugg \in {"first", "generic"}
  IN IF fail # "none"
     THEN [outcome |-> "Failed", eta |-> eta,
           raised |-> LocationCatch(l.screenshot),
           filled |-> FALSE, clicked |-> FALSE,
           trigger |-> IF ~l.goto THEN "none" ELSE ZeptoTrigger(l),
           triggersTried |-> IF ~l.goto THEN <<>> ELSE ZeptoTriggersTried(l),
           screenshotTried |-> TRUE,
           logs |-> {"Error setting location"}
                    \cup (IF fail \in {"trigger", "modal", "typing"} /\ ~l.primary
                          THEN {"Could not find Select Location"} ELSE {})]
     ELSE [outcome |-> "Confirmed",
           eta |-> IF m # "" THEN m ELSE eta,
           raised |-> FALSE, filled |-> TRUE, clicked |-> suggOk,
           trigger |-> ZeptoTrigger(l),
           triggersTried |-> ZeptoTriggersTried(l),
           screenshotTried |-> FALSE,
           logs |-> {"Location set successfully"}
                    \cup (IF ~l.primary THEN {"Could not find Select Location"} ELSE {})
                    \cup (IF ~suggOk THEN {"Error selecting suggestion"} ELSE {})
                    \cup (IF ~l.settle THEN {"Timeout waiting for location update"} ELSE {})
                    \cup (IF m = "" THEN {"Could not parse ETA"} ELSE {})]

\* ----------------------------------------------- BlinkitScraper.set_location
\* re.search(r'(\d+\s*minutes?|mins?)', text, re.IGNORECASE), group(1).lower():
\* the alternation is "digits and minute(s)" or a bare "min(s)".
BlinkitEtaMatch(text) ==
  IF text = "8 minutes" THEN "8 minutes"
  ELSE IF text \in {"8 Mins", "12 mins"} THEN "mins"
  ELSE ""

\* What the page does during one set_location call.
\*   goto, modal, fill, hidden, screenshot: the step works
\*   barVisible, textVisible: the LocationBar trigger, the "Delivery in" text
\*                            is visible;  click: the click on the trigger works
\*   sugg: "first" (found and clicked), "timeout", "click fails"
\*   etaEl: the LocationBar title is "found", "absent", or the query "fails"
BlinkitLocInputs ==
  [goto : BOOLEAN, barVisible : BOOLEAN, textVisible : BOOLEAN,
   click : BOOLEAN, modal : BOOLEAN, fill : BOOLEAN,
   sugg : {"first", "timeout", "click fails"}, hidden : BOOLEAN,
   etaEl : {"found", "absent", "fails"}, etaText : EtaTexts,
   screenshot : BOOLEAN]

\* The trigger the if/elif/else of lines 44-49 clicks.
BlinkitTrigger(l) ==
  IF l.barVisible THEN "LocationBar"
  ELSE IF l.textVisible THEN "Delivery in"
  ELSE "header Container"

BlinkitSetLocation(eta, l) ==
  LET m == IF l.etaEl = "found" THEN BlinkitEtaMatch(l.etaText) ELSE ""
      inputOk == l.fill /\ l.sugg = "first" /\ l.hidden
  IN IF ~l.goto \/ ~l.modal
     THEN [outcome |-> "Failed", eta |-> eta,
           raised |-> LocationCatch(l.screenshot),
           filled |-> FALSE, clicked |-> FALSE,
           trigger |-> IF l.goto /\ l.click THEN BlinkitTrigger(l) ELSE "none",
           triggersTried |-> IF l.goto THEN <<BlinkitTrigger(l)>> ELSE <<>>,
           screenshotTried |-> TRUE,
           logs |-> {"Error setting location"}
                    \cup (IF l.goto /\ ~l.click
                          THEN {"Trigger click failed"} ELSE {})]
     ELSE [outcome |-> "Confirmed",
           eta |-> IF m # "" THEN m ELSE eta,
           raised |-> FALSE, filled |-> l.fill,
           clicked |-> l.fill /\ l.sugg = "first",
           trigger |-> IF l.click THEN BlinkitTrigger(l) ELSE "none",
           triggersTried |-> <<BlinkitTrigger(l)>>,
           screenshotTried |-> FALSE,
           logs |-> {"Location set successfully"}
                    \cup (IF ~l.click THEN {"Trigger click failed"} ELSE {})
                    \cup (IF ~inputOk
                          THEN {"Location input interaction failed"} ELSE {})
                    \cup (IF l.etaEl = "found" /\ m = ""
                          THEN {"ETA regex mismatch"} ELSE {})
                    \cup (IF l.etaEl = "absent"
                          THEN {"ETA Element not found"} ELSE {})
                    \cup (IF l.etaEl = "fails"
                          THEN {"Could not extract ETA"} ELSE {})]

\* --------------------------------------------- InstamartScraper.set_location
\* re.search(r'(\d+\s*MINS?)', header_text, re.IGNORECASE), group(1) as found.
InstamartEtaMatch(text) ==
  IF text = "8 Mins" THEN "8 Mins"
  ELSE IF text = "12 mins" THEN "12 mins"
  ELSE IF text = "8 minutes" THEN "8 min"
  ELSE ""

\* The triggers of lines 104-113, by position in the list.
InstamartTriggers ==
  <<"DEFAULT_ADDRESS_CONTAINER", "DEFAULT_ADDRESS_TITLE",
    "header-location-container", "Setup your location", "Other", "Location",
    "Locate Me", "LocationHeader">>

\* What the page does during one set_location call.
\*   goto, preShot, input, fill, header, screenshot, dump: the step works
\*     (preShot the screenshot before the interaction, dump the content read
\*      of the failure path)
\*   visible: the positions of the triggers that are visible
\*   click: the click on the first visible trigger works
\*   sugg: "first" (found and clicked), "timeout", "click fails"
InstamartLocInputs ==
  [goto : BOOLEAN, preShot : BOOLEAN, visible : {{}, {1}, {3, 6}, {8}},
   click : BOOLEAN, input : BOOLEAN, fill : BOOLEAN,
   sugg : {"first", "timeout", "click fails"}, header : BOOLEAN,
   etaText : EtaTexts, screenshot : BOOLEAN, dump : BOOLEAN]

\* The first visible trigger of the list, 0 when none is visible.
InstamartFirstVisible(visible) ==
  IF visible = {} THEN 0
  ELSE CHOOSE i \in visible : \A j \in visible : i <= j

\* The steps of the outer try block: the first that raises ends in the
\* outer handler.
InstamartLocFailure(l) ==
  IF ~l.goto THEN "goto"
  ELSE IF ~l.preShot THEN "debug screenshot"
  ELSE IF ~l.input THEN "input"
  ELSE IF ~l.fill THEN "fill"
  ELSE IF l.sugg # "first" THEN "suggestion"
  ELSE "none"

InstamartSetLocation(eta, l) ==
  LET fail == InstamartLocFailure(l)
      t    == InstamartFirstVisible(l.visible)
      reachedTriggers == l.goto /\ l.preShot
      m    == IF l.header THEN InstamartEtaMatch(l.etaText) ELSE ""
      trig == IF reachedTriggers /\ t # 0 /\ l.click
              THEN InstamartTriggers[t] ELSE "none"
      tried == IF reachedTriggers /\ t # 0 THEN <<InstamartTriggers[t]>>
               ELSE <<>>
      tlog == IF reachedTriggers /\ t # 0 /\ ~l.click
              THEN {"Trigger click attempt failed"} ELSE {}
  IN IF fail # "none"
     THEN [outcome |-> "Failed", eta |-> eta,
           raised |-> LocationCatch(l.screenshot /\ l.dump),
           filled |-> fail = "suggestion", clicked |-> FALSE, trigger |-> trig,
           triggersTried |-> tried, screenshotTried |-> TRUE,
           logs |-> {"Error setting location"} \cup tlog]
     ELSE [outcome |-> "Confirmed",
           eta |-> IF m # "" THEN m ELSE eta,
           raised |-> FALSE, filled |-> TRUE, clicked |-> TRUE,
           trigger |-> trig, triggersTried |-> tried,
           screenshotTried |-> FALSE,
           logs |-> {"Location set successfully"} \cup tlog
                    \cup (IF ~l.header THEN {"Could not extract ETA"} ELSE {})]

\* -------------------------------------------- ZeptoScraper.scrape_availability
\* One anchor matched by the start pattern {"id":"<36 hex>" in the page markup:
\* whether raw_decode succeeds there, and the fields of the decoded object.
\*   sp: sellingPrice in paise; 0 when absent, -1 when it is no number
\*   mrp: in paise; 0 when absent, -1 when it is no number
\*   variants: productVariants, each entry "in", "out" or "bad" (no object)
\*   size: len(str(object))
\*   brand: None when absent;  inventory: -2 when absent, -1 when no number
ZeptoObject ==
  [decodes |-> TRUE, id |-> "a", name |-> "Milk", sp |-> 19900, mrp |-> 24900,
   isSoldOut |-> FALSE, manufacturer |-> None, importedBy |-> None,
   sellerName |-> None, variants |-> <<>>, size |-> 2, brand |-> "Amul",
   inventory |-> -2]

ZeptoObjects ==
  {[ZeptoObject EXCEPT !.id = i, !.sp = sp, !.isSoldOut = so] :
     i \in {"a", "b"}, sp \in {-1, 19900}, so \in BOOLEAN}
    \cup {[ZeptoObject EXCEPT !.variants = <<"in", "bad">>],
          [ZeptoObject EXCEPT !.variants = <<"in", "out">>],
          [ZeptoObject EXCEPT !.variants = <<"in", "in", "in">>],
          [ZeptoObject EXCEPT !.size = 1, !.id = "b"],
          [ZeptoObject EXCEPT !.name = ""],
          [ZeptoObject EXCEPT !.manufacturer = "JSON maker"],
          [ZeptoObject EXCEPT !.manufacturer = "JSON maker", !.sp = -1]}

ZeptoBadAnchor == [ZeptoObject EXCEPT !.decodes = FALSE]

ZeptoAnchors == ZeptoObjects \cup {ZeptoBadAnchor}

\* What the page does during one scrape_availability call.
\*   goto: the navigation works;  content: "fail", "404" or "ok"
\*   h1: "fail" (the query raises), "none" (no heading) or the heading's text
\*   body: inner_text("body") works; domManufacturer, domMarketer: the line
\*         after the label in the body text
\*   chips: variant chips found, -1 when the query raises
ZeptoPagesOver(anchorSeqs) ==
  [goto : {TRUE}, content : {"ok"}, anchors : anchorSeqs,
   h1 : {"fail", "none", "Heading"}, body : BOOLEAN,
   domManufacturer : {None, "DOM maker"}, domMarketer : {None},
   chips : {-1, 0, 2}]

ZeptoDefault(url) ==
  [input_pincode |-> "", url |-> url, platform |-> "zepto", name |-> "N/A",
   price |-> 0, mrp |-> 0, availability |-> "Unknown", seller_details |-> None,
   manufacturer_details |-> None, marketer_details |-> None,
   variant_count |-> 1, variant_in_stock_count |-> 1, inventory |-> NoneInt,
   error |-> None]

\* A handler that logs and raises again.
ZeptoCatchReraise(r) ==
  [raised |-> TRUE, result |-> r, logs |-> {"Error checking availability"}]

\* except Exception as e: the handler of the probe's outer try.
ZeptoCatch(r) ==
  [raised |-> FALSE, logs |-> {"Error checking availability"},
   result |-> [r EXCEPT !.error = "exception", !.availability = "Error"]]

\* The objects the scan keeps: decoded, with an id and a name.
ZeptoCandidates(anchors) ==
  SelectSeq(anchors, LAMBDA a : a.decodes /\ a.id # "" /\ a.name # "")

\* next(c for c in candidates if c.get('id') == target_id), 0 when none.
FirstWithId(cands, id) ==
  IF \E i \in 1..Len(cands) : cands[i].id = id
  THEN CHOOSE i \in 1..Len(cands) :
         cands[i].id = id /\ \A j \in 1..(i - 1) : cands[j].id # id
  ELSE 0

\* candidates.sort(key=len(str(x)), reverse=True)[0]: the first of the largest.
FirstLargest(cands) ==
  CHOOSE i \in 1..Len(cands) :
    /\ \A j \in 1..Len(cands) : cands[j].size <= cands[i].size
    /\ \A j \in 1..(i - 1) : cands[j].size < cands[i].size

\* A selection that ignores the URL's identifier.
ZeptoSelectLargest(url, cands) ==
  IF cands # <<>> THEN FirstLargest(cands) ELSE 0

\* The candidate the result is filled from: the one with the URL's id, else
\* the first of the largest, 0 when there is no candidate.
ZeptoSelect(url, cands) ==
  LET byId == IF UrlId(url) # "none" THEN FirstWithId(cands, UrlId(url)) ELSE 0
  IN IF byId # 0 THEN byId
     ELSE IF cands # <<>> THEN FirstLargest(cands)
     ELSE 0

CountIn(vs) == Cardinality({i \in 1..Len(vs) : vs[i] = "in"})
HasBad(vs) == \E i \in 1..Len(vs) : vs[i] = "bad"

\* Lines 348-369: the result filled from the selected object, statement by
\* statement; an exception (float() of a non-number, .get on a non-object) ends
\* the block with what was assigned so far.
ZeptoFill(r, o) ==
  LET r1 == [r EXCEPT !.name = o.name]
      r2 == IF o.sp > 0 THEN [r1 EXCEPT !.price = o.sp] ELSE r1
      r3 == IF o.mrp > 0 THEN [r2 EXCEPT !.mrp = o.mrp] ELSE r2
      r4 == IF o.isSoldOut
            THEN [r3 EXCEPT !.availability = "Out of Stock",
                            !.variant_in_stock_count = 0]
            ELSE [r3 EXCEPT !.availability = "In Stock"]
      r5 == [r4 EXCEPT !.manufacturer_details = o.manufacturer,
                       !.marketer_details = o.importedBy,
                       !.seller_details =
                          IF o.sellerName # None THEN o.sellerName ELSE "Zepto"]
      r6 == [r5 EXCEPT !.variant_count = Len(o.variants)]
      r7 == [r6 EXCEPT !.variant_in_stock_count = CountIn(o.variants)]
  IN IF o.sp = -1 THEN r1
     ELSE IF o.mrp = -1 THEN r2
     ELSE IF o.variants = <<>> THEN r5
     ELSE IF HasBad(o.variants) THEN r6
     ELSE r7

ZeptoProbe(url, p) ==
  LET r0    == ZeptoDefault(url)
      cands == ZeptoCandidates(p.anchors)
      sel   == ZeptoSelect(url, cands)
      rJson == IF sel # 0 THEN ZeptoFill(r0, cands[sel]) ELSE r0
      rName == IF rJson.name = "N/A" /\ p.h1 \notin {"fail", "none"}
               THEN [rJson EXCEPT !.name = p.h1] ELSE rJson
      rMan  == IF rName.manufacturer_details = None
               THEN [rName EXCEPT !.manufacturer_details = p.domManufacturer]
               ELSE rName
      rMkt  == IF rMan.marketer_details = None
               THEN [rMan EXCEPT !.marketer_details = p.domMarketer]
               ELSE rMan
      rVar  == IF p.chips > 0 THEN [rMkt EXCEPT !.variant_count = p.chips]
               ELSE rMkt
  IN IF ~p.goto THEN ZeptoCatch(r0)
     ELSE IF p.content = "fail" THEN ZeptoCatch(r0)
     ELSE IF p.content = "404"
     THEN [raised |-> FALSE, logs |-> {},
           result |-> [r0 EXCEPT !.availability = "Not Found",
                                 !.error = "404 Not Found"]]
     ELSE IF ~p.body THEN ZeptoCatch(rName)
     ELSE [raised |-> FALSE, logs |-> {}, result |-> rVar]

ZeptoPageOk ==
  [goto |-> TRUE, content |-> "ok", anchors |-> <<>>, h1 |-> "none",
   body |-> TRUE, domManufacturer |-> None, domMarketer |-> None, chips |-> 0]

\* The pages a probe can meet: the navigation fails, the content read fails,
\* the not-found page, or a page with anchors.
ZeptoPages ==
  {[ZeptoPageOk EXCEPT !.goto = FALSE], [ZeptoPageOk EXCEPT !.content = "fail"],
   [ZeptoPageOk EXCEPT !.content = "404"]}
    \cup ZeptoPagesOver(SeqsUpTo(ZeptoAnchors, MaxAnchors))

\* ------------------------------------------ BlinkitScraper.scrape_availability
\* One anchor matched by {"product_id": in the page markup.
\*   price, mrp: in rupees; 0 when absent, -1 when it is no number
\*   inventory: -2 when the key is absent, -1 when it is no number
\*   product_name: the name key the assortment scan reads, None when absent
\*   unavailable: unavailable_quantity == 1;  brand: None when absent
BlinkitObject ==
  [decodes |-> TRUE, product_id |-> "a", name |-> "Milk", price |-> 100,
   mrp |-> 120, inventory |-> 5, product_name |-> "Milk",
   unavailable |-> FALSE, brand |-> "Amul"]

BlinkitObjects ==
  {[BlinkitObject EXCEPT !.product_id = i, !.inventory = inv] :
     i \in {"a", "b"}, inv \in {-2, -1, 0, 5}}
    \cup {[BlinkitObject EXCEPT !.price = -1],
          [BlinkitObject EXCEPT !.mrp = -1],
          [BlinkitObject EXCEPT !.name = "N/A"]}

BlinkitBadAnchor == [BlinkitObject EXCEPT !.decodes = FALSE]

BlinkitAnchors == BlinkitObjects \cup {BlinkitBadAnchor}

\* What the page does during one scrape_availability call.
\*   seeMore: expanding the details section works (its failure is swallowed)
\*   domSeller, domSoldBy: the "Seller Details" and "Sold By" sections
\*   variants: the PackSizeSelector query works
BlinkitPageOk ==
  [goto |-> TRUE, seeMore |-> TRUE, content |-> "ok", anchors |-> <<>>,
   h1 |-> "none", body |-> TRUE, domManufacturer |-> None,
   domMarketer |-> None, domSeller |-> None, domSoldBy |-> None,
   variants |-> TRUE]

BlinkitPagesOver(anchorSeqs) ==
  [goto : {TRUE}, seeMore : BOOLEAN, content : {"ok"}, anchors : anchorSeqs,
   h1 : {"fail", "none", "Heading"}, body : BOOLEAN,
   domManufacturer : {None, "DOM maker"}, domMarketer : {None},
   domSeller : {None}, domSoldBy : {None}, variants : BOOLEAN]

BlinkitPages ==
  {[BlinkitPageOk EXCEPT !.goto = FALSE],
   [BlinkitPageOk EXCEPT !.content = "fail"]}
    \cup BlinkitPagesOver(SeqsUpTo(BlinkitAnchors, MaxAnchors))

BlinkitDefault(url) ==
  [input_pincode |-> "", url |-> url, platform |-> "blinkit", name |-> "N/A",
   price |-> 0, mrp |-> 0, availability |-> "Unknown", seller_details |-> None,
   manufacturer_details |-> None, marketer_details |-> None,
   variant_count |-> NoneInt, variant_in_stock_count |-> NoneInt,
   inventory |-> NoneInt, error |-> None]

\* except Exception as e: only the error is recorded.
BlinkitCatch(r) ==
  [raised |-> FALSE, logs |-> {"Error scraping availability"},
   result |-> [r EXCEPT !.error = "exception"]]

\* The first decodable object whose product_id is the URL's, 0 when none.
BlinkitTarget(url, anchors) ==
  IF UrlId(url) = "none" THEN 0
  ELSE IF \E i \in 1..Len(anchors) :
            anchors[i].decodes /\ anchors[i].product_id = UrlId(url)
  THEN CHOOSE i \in 1..Len(anchors) :
         /\ anchors[i].decodes /\ anchors[i].product_id = UrlId(url)
         /\ \A j \in 1..(i - 1) :
              ~(anchors[j].decodes /\ anchors[j].product_id = UrlId(url))
  ELSE 0

\* Lines 261-271, statement by statement; raises is TRUE when float() or int()
\* raised, with r what was assigned before.
BlinkitFill(r, o) ==
  LET r1  == [r EXCEPT !.name = o.name]
      r2  == [r1 EXCEPT !.price = o.price * 100]
      r3  == [r2 EXCEPT !.mrp = o.mrp * 100]
      inv == IF o.inventory = -2 THEN 0 ELSE o.inventory
      r4  == [r3 EXCEPT !.inventory = inv,
                        !.availability =
                           IF inv > 0 THEN "In Stock" ELSE "Out of Stock"]
  IN IF o.price = -1 THEN [raises |-> TRUE, r |-> r1]
     ELSE IF o.mrp = -1 THEN [raises |-> TRUE, r |-> r2]
     ELSE IF o.inventory = -1 THEN [raises |-> TRUE, r |-> r3]
     ELSE [raises |-> FALSE, r |-> r4]

BlinkitProbe(url, p) ==
  LET r0    == BlinkitDefault(url)
      t     == BlinkitTarget(url, p.anchors)
      fill  == IF t # 0 THEN BlinkitFill(r0, p.anchors[t])
               ELSE [raises |-> FALSE,
                     r |-> IF p.h1 \notin {"fail", "none"}
                           THEN [r0 EXCEPT !.name = p.h1] ELSE r0]
      rCore == fill.r
      rMeta == [rCore EXCEPT
                  !.manufacturer_details = p.domManufacturer,
                  !.marketer_details = p.domMarketer,
                  !.seller_details =
                     IF p.domSeller # None THEN p.domSeller ELSE p.domSoldBy]
      rVar  == IF p.variants
               THEN [rMeta EXCEPT
                       !.variant_count = 1,
                       !.variant_in_stock_count =
                          IF rMeta.availability = "In Stock" THEN 1 ELSE 0]
               ELSE rMeta
  IN IF ~p.goto THEN BlinkitCatch(r0)
     ELSE IF p.content = "fail" THEN BlinkitCatch(r0)
     ELSE IF fill.raises THEN BlinkitCatch(rCore)
     ELSE IF ~p.body THEN BlinkitCatch(rCore)
     ELSE [raised |-> FALSE, logs |-> {}, result |-> rVar]

\* ---------------------------------------- InstamartScraper.scrape_availability
\* One ld+json script of the page.
\*   parses: inner_text and json.loads work
\*   type: the @type of the object (or of the first Product of a list)
\*   offers: "dict" or "other" (a list, or absent)
\*   price: in rupees; 0 when absent, -1 when it is no number
\*   availability: the offer's availability string, "bad" when it is no string
InstamartScript ==
  [parses |-> TRUE, type |-> "Product", name |-> "Milk", offers |-> "dict",
   price |-> 100, availability |-> "https://schema.org/InStock",
   brand |-> "Brand"]

InstamartScripts ==
  {[InstamartScript EXCEPT !.availability = av, !.price = pr] :
     av \in {"https://schema.org/InStock", "https://schema.org/OutOfStock", "bad"},
     pr \in {-1, 100}}
    \cup {[InstamartScript EXCEPT !.parses = FALSE],
          [InstamartScript EXCEPT !.type = "ItemList"],
          [InstamartScript EXCEPT !.offers = "other"],
          [InstamartScript EXCEPT !.brand = None, !.name = "Curd"]}

\* What the page does during one scrape_availability call.
\*   ldQuery: the query for the ld+json scripts works
\*   containers: variant containers found, -1 when the query raises
InstamartPageOk ==
  [goto |-> TRUE, ldQuery |-> TRUE, scripts |-> <<>>, body |-> TRUE,
   domManufacturer |-> None, domMarketer |-> None, domSeller |-> None,
   containers |-> 0]

InstamartPagesOver(scriptSeqs) ==
  [goto : {TRUE}, ldQuery : BOOLEAN, scripts : scriptSeqs, body : BOOLEAN,
   domManufacturer : {None, "DOM maker"}, domMarketer : {None},
   domSeller : {None}, containers : {-1, 0, 2}]

InstamartPages ==
  {[InstamartPageOk EXCEPT !.goto = FALSE]}
    \cup InstamartPagesOver(SeqsUpTo(InstamartScripts, MaxAnchors))

InstamartDefault(url) ==
  [input_pincode |-> "", url |-> url, platform |-> "instamart",
   name |-> "N/A", price |-> 0, mrp |-> 0, availability |-> "Unknown",
   seller_details |-> None, manufacturer_details |-> None,
   marketer_details |-> None, variant_count |-> 1,
   variant_in_stock_count |-> 1, inventory |-> NoneInt, error |-> None]

InstamartCatch(r) ==
  [raised |-> FALSE, logs |-> {"Error scraping availability"},
   result |-> [r EXCEPT !.error = "exception"]]

\* "InStock" in offers.get('availability', '')
HasInStock(av) == av = "https://schema.org/InStock"

\* Lines 359-376 for one script holding a Product, statement by statement;
\* done is TRUE when the break was reached, FALSE when a statement raised and
\* the loop went on to the next script.
InstamartFill(r, sc) ==
  LET r1 == [r EXCEPT !.name = sc.name]
      r2 == IF sc.offers = "dict" THEN [r1 EXCEPT !.price = sc.price * 100] ELSE r1
      r3 == IF sc.offers = "dict"
            THEN [r2 EXCEPT !.availability =
                    IF HasInStock(sc.availability) THEN "In Stock"
                    ELSE "Out of Stock"]
            ELSE r2
      r4 == [r3 EXCEPT !.manufacturer_details = sc.brand]
      r5 == [description |-> "description"] @@ r4
  IN IF sc.offers = "dict" /\ sc.price = -1 THEN [done |-> FALSE, r |-> r1]
     ELSE IF sc.offers = "dict" /\ sc.availability = "bad"
     THEN [done |-> FALSE, r |-> r2]
     ELSE [done |-> TRUE, r |-> r5]

\* The loop over the scripts from index i on.
RECURSIVE InstamartScan(_, _, _)
InstamartScan(r, scripts, i) ==
  IF i > Len(scripts) THEN r
  ELSE IF ~scripts[i].parses \/ scripts[i].type # "Product"
  THEN InstamartScan(r, scripts, i + 1)
  ELSE LET f == InstamartFill(r, scripts[i])
       IN IF f.done THEN f.r ELSE InstamartScan(f.r, scripts, i + 1)

InstamartProbe(url, p) ==
  LET r0    == InstamartDefault(url)
      rJson == IF p.ldQuery THEN InstamartScan(r0, p.scripts, 1) ELSE r0
      rMan  == IF rJson.manufacturer_details = None
               THEN [rJson EXCEPT !.manufacturer_details = p.domManufacturer]
               ELSE rJson
      rMeta == [rMan EXCEPT !.marketer_details = p.domMarketer,
                            !.seller_details = p.domSeller]
      rCnt  == [rMeta EXCEPT !.variant_count =
                  IF p.containers > 0 THEN p.containers ELSE 1]
      rVar  == IF rCnt.availability # "In Stock"
               THEN [rCnt EXCEPT !.variant_in_stock_count = 0] ELSE rCnt
  IN IF ~p.goto THEN InstamartCatch(r0)
     ELSE IF ~p.body THEN InstamartCatch(rJson)
     ELSE [raised |-> FALSE, logs |-> {}, result |-> rVar]

\* ================================================== the assortment scans
\* The category URLs: two with a /cn/ path (a produce category and another
\* one) and one with a categoryName= query.
CategoryUrls == {"/cn/fresh-vegetables", "/cn/dairy", "?categoryName=Dairy"}

\* The category title-cased from the /cn/ path of the URL, else "N/A".
CategoryOf(url) ==
  CASE url = "/cn/fresh-vegetables" -> "Fresh Vegetables"
    [] url = "/cn/dairy" -> "Dairy"
    [] OTHER -> "N/A"

\* The category read from the categoryName= query of the URL, else "N/A".
InstamartCategoryOf(url) == IF url = "?categoryName=Dairy" THEN "Dairy" ELSE "N/A"

\* "vegetable" in category.lower() or "fruit" in category.lower()
IsProduce(category) == category = "Fresh Vegetables"

\* any(k in name.lower() for k in bad_keywords)
HasBadKeyword(name) == name = "Soap"

Item(pf, category, pin, eta, name, brand, pid, mrp, price, avail, inv) ==
  [platform |-> pf, category |-> category, name |-> name,
   brand |-> brand, base_product_id |-> pid, mrp |-> mrp, price |-> price,
   eta |-> eta, availability |-> avail, inventory |-> inv,
   pincode_input |-> pin]

\* --------------------------------------------- ZeptoScraper.scrape_assortment
\* The objects an assortment page can hold.
ZeptoListObjects ==
  {[ZeptoObject EXCEPT !.id = i, !.name = n, !.mrp = m] :
     i \in {"a", "b"}, n \in {"Milk", "Soap"}, m \in {0, 24900}}
    \cup {[ZeptoObject EXCEPT !.sp = -1, !.name = "Curd"],
          [ZeptoObject EXCEPT !.isSoldOut = TRUE, !.inventory = 0],
          [ZeptoObject EXCEPT !.inventory = 0],
          [ZeptoObject EXCEPT !.inventory = 7, !.brand = None],
          [ZeptoObject EXCEPT !.decodes = FALSE]}

\* What the session's page does during one scrape_assortment call.
\*   loaded: the page the session shows when called: the requested "category",
\*           the "previous" category's page, or "home"
\*   check: the content read of the navigation check: "fail", "404" or "ok"
\*   recovery: the click on the recovery link works
\*   content: the content read of the extraction works
\*   cards: the product cards rendered in the page's DOM
ZeptoListPageOk ==
  [loaded |-> "category", check |-> "ok", recovery |-> TRUE, content |-> TRUE,
   cards |-> 0, anchors |-> <<>>]

ZeptoListPages ==
  [loaded : {"category", "previous", "home"}, check : {"fail", "404", "ok"},
   recovery : BOOLEAN, content : BOOLEAN, cards : {0, 2},
   anchors : SeqsUpTo(ZeptoListObjects, MaxAnchors)]

NamesOf(m) == {m[k].name : k \in 1..Len(m)}

IndexOfName(m, n) == CHOOSE k \in 1..Len(m) : m[k].name = n

\* One anchor of the loop that fills json_products_map, keyed by name: a new
\* name is added, a known one is replaced when the new object has an mrp and
\* the stored one has none.
ZeptoMapAdd(m, a) ==
  IF ~(a.decodes /\ a.id # "" /\ a.name # "") THEN m
  ELSE IF a.name \notin NamesOf(m) THEN Append(m, a)
  ELSE LET k == IndexOfName(m, a.name)
       IN IF a.mrp # 0 /\ m[k].mrp = 0 THEN [m EXCEPT ![k] = a] ELSE m

\* A scan that ends at the first anchor that does not decode.
RECURSIVE ZeptoMapAbort(_, _)
ZeptoMapAbort(anchors, n) ==
  IF n = 0 THEN <<>>
  ELSE IF \E i \in 1..n : ~anchors[i].decodes
  THEN ZeptoMapAbort(anchors, n - 1)
  ELSE ZeptoMapAdd(ZeptoMapAbort(anchors, n - 1), anchors[n])

\* The loop over the matched anchors, each in a try of its own.
RECURSIVE ZeptoMap(_, _)
ZeptoMap(anchors, n) ==
  IF n = 0 THEN <<>> ELSE ZeptoMapAdd(ZeptoMap(anchors, n - 1), anchors[n])

\* int(p.get('inventory') or ... or 0), None for 0, for an absent key and for
\* a value that is no number.
ZeptoInventory(o) == IF o.inventory > 0 THEN o.inventory ELSE NoneInt

\* One entry of the emission loop: skipped by the produce filter or when a
\* price is no number, else one item.
ZeptoEmit(items, url, pin, eta, o) ==
  IF IsProduce(CategoryOf(url)) /\ HasBadKeyword(o.name) THEN items
  ELSE IF o.sp = -1 \/ o.mrp = -1 THEN items
  ELSE Append(items,
         Item("zepto", CategoryOf(url), pin, eta, o.name,
              IF o.brand # None THEN o.brand ELSE "Unknown", o.id, o.mrp, o.sp,
              IF o.isSoldOut THEN "Out of Stock" ELSE "In Stock",
              ZeptoInventory(o)))

RECURSIVE ZeptoEmitAll(_, _, _, _, _)
ZeptoEmitAll(m, n, url, pin, eta) ==
  IF n = 0 THEN <<>>
  ELSE ZeptoEmit(ZeptoEmitAll(m, n - 1, url, pin, eta), url, pin, eta, m[n])

\* The first segment of the URL that has a hyphen and more than 3 characters,
\* "fruits" when there is none.
ZeptoKeyword(url) ==
  IF url = "/cn/fresh-vegetables" THEN "fresh-vegetables" ELSE "fruits"

\* A recovery that leaves the scan going whether or not the click worked.
RecoveryIgnored(needed, clickOk) == FALSE

\* The recovery click was needed and raised: the handler returns [].
RecoveryFailed(needed, clickOk) == needed /\ ~clickOk

ZeptoAssortment(eta, url, pin, p) ==
  LET needsRecovery == p.check = "404" \/ (p.check = "ok" /\ p.loaded = "home")
      keyword == IF needsRecovery THEN ZeptoKeyword(url) ELSE None
      m == ZeptoMap(p.anchors, Len(p.anchors))
  IN IF RecoveryFailed(needsRecovery, p.recovery)
     THEN [raised |-> FALSE, items |-> <<>>, eta |-> eta, scanned |-> "nothing",
           strategies |-> <<>>, keyword |-> keyword,
           logs |-> {"Direct link failed", "Smart Navigation failed"}]
     ELSE IF ~p.content
     THEN [raised |-> FALSE, items |-> <<>>, eta |-> eta, scanned |-> "nothing",
           strategies |-> <<>>, keyword |-> keyword,
           logs |-> {"Error in hybrid extraction strategy"}]
     ELSE [raised |-> FALSE,
           items |-> ZeptoEmitAll(m, Len(m), url, pin, eta), eta |-> eta,
           scanned |-> IF needsRecovery /\ p.recovery THEN "recovery"
                       ELSE p.loaded,
           strategies |-> <<"embedded JSON">>, keyword |-> keyword,
           logs |-> IF p.check = "fail"
                    THEN {"Error in smart navigation check"} ELSE {}]

\* ------------------------------------------- BlinkitScraper.scrape_assortment
BlinkitListObjects ==
  {[BlinkitObject EXCEPT !.product_id = i, !.mrp = m] :
     i \in {"a", "b"}, m \in {0, 120}}
    \cup {[BlinkitObject EXCEPT !.mrp = -1],
          [BlinkitObject EXCEPT !.inventory = 0],
          [BlinkitObject EXCEPT !.inventory = -2],
          [BlinkitObject EXCEPT !.inventory = -1, !.product_id = "b"],
          [BlinkitObject EXCEPT !.unavailable = TRUE],
          [BlinkitObject EXCEPT !.product_name = None, !.brand = None],
          [BlinkitObject EXCEPT !.decodes = FALSE]}

\* goto, content: the navigation and the content read work
\* screenshot: the screenshot of the failure path works
\* cards: the product cards rendered in the page's DOM
BlinkitListPages ==
  [goto : BOOLEAN, content : BOOLEAN, screenshot : BOOLEAN, cards : {0, 2},
   anchors : SeqsUpTo(BlinkitListObjects, MaxAnchors)]

\* products_map keeps the first object of each product id.
BlinkitMapAdd(m, a) ==
  IF ~a.decodes THEN m
  ELSE IF \E k \in 1..Len(m) : m[k].product_id = a.product_id THEN m
  ELSE Append(m, a)

RECURSIVE BlinkitMap(_, _)
BlinkitMap(anchors, n) ==
  IF n = 0 THEN <<>> ELSE BlinkitMapAdd(BlinkitMap(anchors, n - 1), anchors[n])

BlinkitEmit(items, url, pin, eta, o) ==
  IF o.mrp = -1 \/ o.price = -1 THEN items
  ELSE Append(items,
         Item("blinkit", CategoryOf(url), pin, eta,
              IF o.product_name # None THEN o.product_name ELSE "Unknown",
              IF o.brand # None THEN o.brand ELSE "Unknown", o.product_id,
              o.mrp * 100, o.price * 100,
              IF o.unavailable \/ o.inventory = 0
              THEN "Out of Stock" ELSE "In Stock",
              IF o.inventory >= 0 THEN o.inventory ELSE NoneInt))

RECURSIVE BlinkitEmitAll(_, _, _, _, _)
BlinkitEmitAll(m, n, url, pin, eta) ==
  IF n = 0 THEN <<>>
  ELSE BlinkitEmit(BlinkitEmitAll(m, n - 1, url, pin, eta), url, pin, eta, m[n])

\* The handler of the scan's try block: log, then the screenshot, unguarded.
AssortmentCatch(eta, screenshotOk) ==
  [raised |-> ~screenshotOk, items |-> <<>>, eta |-> eta,
   scanned |-> "nothing", strategies |-> <<>>,
   logs |-> {"Error scraping assortment"}]

BlinkitAssortment(eta, url, pin, p) ==
  LET m == BlinkitMap(p.anchors, Len(p.anchors))
  IN IF ~p.goto \/ ~p.content THEN AssortmentCatch(eta, p.screenshot)
     ELSE [raised |-> FALSE,
           items |-> BlinkitEmitAll(m, Len(m), url, pin, eta), eta |-> eta,
           scanned |-> "category", strategies |-> <<"embedded JSON">>,
           logs |-> {}]

\* ----------------------------------------- InstamartScraper.scrape_assortment
\* One entry of an ItemList's itemListElement.
\*   sku: None when absent (the id is then a hash of the name)
\*   offers: "dict", "list" or "absent";  price: -1 when it is no number
\*   brand: "dict", "absent" or "string" (a string has no .get)
InstamartItem ==
  [type |-> "Product", name |-> "Milk", sku |-> "a", offers |-> "dict",
   price |-> 100, availability |-> "https://schema.org/InStock",
   brand |-> "dict"]

InstamartItems ==
  {[InstamartItem EXCEPT !.sku = k, !.price = pr] :
     k \in {"a", "b"}, pr \in {-1, 100}}
    \cup {[InstamartItem EXCEPT !.sku = None, !.brand = "absent"],
          [InstamartItem EXCEPT !.offers = "absent"],
          [InstamartItem EXCEPT !.offers = "list"],
          [InstamartItem EXCEPT !.brand = "string"],
          [InstamartItem EXCEPT !.availability = "https://schema.org/OutOfStock"],
          [InstamartItem EXCEPT !.type = "Offer"]}

\* One ld+json script: whether it parses, and the entries of its ItemList
\* (none when it is no ItemList).
InstamartLists ==
  [parses : BOOLEAN, items : SeqsUpTo(InstamartItems, MaxAnchors)]

\* goto: the navigation works;  etaText: what the ETA selectors show, "" when
\* none is visible;  ldQuery: the query for the scripts works
\* cards: the product cards rendered in the page's DOM
InstamartListPages ==
  [goto : BOOLEAN, etaText : EtaTexts \cup {""}, ldQuery : BOOLEAN,
   screenshot : BOOLEAN, cards : {0, 2}, scripts : SeqsUpTo(InstamartLists, 1)]

\* scrape_delivery_eta(): the first visible selector's minutes, else "N/A".
scrape_delivery_eta(text) ==
  IF ZeptoEtaMatch(text) # "" THEN ZeptoEtaMatch(text) ELSE "N/A"

\* item.get('sku') or str(abs(hash(p_name)))
InstamartId(it) == IF it.sku # None THEN it.sku ELSE "hash of name"

\* The statements of one entry raise: float() of a non-number, .get on a
\* brand string, .get on an offers list.
InstamartItemRaises(it) ==
  \/ it.offers = "dict" /\ it.price = -1
  \/ it.brand = "string"
  \/ it.offers = "list"

\* products_map[p_id] = {...}: a known id keeps its place and takes the new value.
InstamartMapPut(m, it) ==
  LET e == [id |-> InstamartId(it), name |-> it.name,
            brand |-> IF it.brand = "dict" THEN "Amul" ELSE "Unknown",
            price |-> IF it.offers = "dict" THEN it.price * 100 ELSE 0,
            availability |-> IF it.offers = "dict" THEN it.availability
                             ELSE "Unknown"]
  IN IF \E k \in 1..Len(m) : m[k].id = e.id
     THEN [m EXCEPT ![CHOOSE k \in 1..Len(m) : m[k].id = e.id] = e]
     ELSE Append(m, e)

\* The entries of one script from index i on: an entry that raises ends the
\* script (except: continue goes to the next script).
RECURSIVE InstamartListScan(_, _, _)
InstamartListScan(m, items, i) ==
  IF i > Len(items) THEN m
  ELSE IF items[i].type # "Product" THEN InstamartListScan(m, items, i + 1)
  ELSE IF InstamartItemRaises(items[i]) THEN m
  ELSE InstamartListScan(InstamartMapPut(m, items[i]), items, i + 1)

RECURSIVE InstamartMap(_, _)
InstamartMap(scripts, n) ==
  IF n = 0 THEN <<>>
  ELSE LET m == InstamartMap(scripts, n - 1)
       IN IF scripts[n].parses THEN InstamartListScan(m, scripts[n].items, 1)
          ELSE m

RECURSIVE InstamartEmitAll(_, _, _, _, _)
InstamartEmitAll(m, n, url, pin, eta) ==
  IF n = 0 THEN <<>>
  ELSE Append(InstamartEmitAll(m, n - 1, url, pin, eta),
         Item("instamart", InstamartCategoryOf(url), pin, eta, m[n].name,
              m[n].brand, m[n].id,
              m[n].price, m[n].price,
              IF HasInStock(m[n].availability) THEN "In Stock"
              ELSE "Out of Stock",
              NoneInt))

InstamartAssortment(eta, url, pin, p) ==
  LET eta1 == scrape_delivery_eta(p.etaText)
      m    == IF p.ldQuery THEN InstamartMap(p.scripts, Len(p.scripts)) ELSE <<>>
  IN IF ~p.goto THEN AssortmentCatch(eta, p.screenshot)
     ELSE [raised |-> FALSE,
           items |-> InstamartEmitAll(m, Len(m), url, pin, eta1), eta |-> eta1,
           scanned |-> "category", strategies |-> <<"JSON-LD">>,
           logs |-> IF p.ldQuery THEN {} ELSE {"JSON-LD extraction failed"}]

\* ------------------------------------------------------- read_input_excel
\* The cells of the Pincode column (a float cell reads as "560001.0") and of
\* the Product_Url column (an empty cell reads as "nan").
PincodeCells == {"560001", "560001.0", "110001"}
UrlCells == Urls \cup {"nan"}

\* str(cell).split('.')[0]
NormalizePincode(cell) == IF cell = "560001.0" THEN "560001" ELSE cell

IndexOfPincode(d, p) ==
  IF \E i \in 1..Len(d) : d[i].pincode = p
  THEN CHOOSE i \in 1..Len(d) : d[i].pincode = p
  ELSE 0

\* One row of the loop over df.iterrows(): the pincode's list is created when
\* the pincode is new, and the URL is appended unless it is blank or "nan".
AddRow(d, row) ==
  LET p  == NormalizePincode(row[1])
      d1 == IF IndexOfPincode(d, p) = 0
            THEN Append(d, [pincode |-> p, urls |-> <<>>]) ELSE d
      i  == IndexOfPincode(d1, p)
  IN IF row[2] # "" /\ row[2] # "nan"
     THEN [d1 EXCEPT ![i].urls = Append(@, row[2])]
     ELSE d1

RECURSIVE GroupRows(_, _)
GroupRows(rows, n) ==
  IF n = 0 THEN <<>> ELSE AddRow(GroupRows(rows, n - 1), rows[n])

read_input_excel(rows) == GroupRows(rows, Len(rows))

InputRows == SeqsUpTo(PincodeCells \X UrlCells, MaxRows)

\* ------------------------------------------------ run_zepto_availability.main
ZeptoLocOk ==
  [goto |-> TRUE, primary |-> TRUE, fallback |-> TRUE, modal |-> TRUE,
   typing |-> TRUE, sugg |-> "first", confirm |-> TRUE, settle |-> TRUE,
   etaSource |-> "none", etaText |-> "Delivery soon", screenshot |-> TRUE]

\* The pages and location flows a run is checked against.  The stand-alone
\* probe calls below range over all pages.
RunZeptoPages ==
  {[ZeptoPageOk EXCEPT !.goto = FALSE],
   [ZeptoPageOk EXCEPT !.anchors = <<ZeptoObject>>]}

RunLocInputs ==
  {ZeptoLocOk, [ZeptoLocOk EXCEPT !.goto = FALSE],
   [ZeptoLocOk EXCEPT !.sugg = "timeout", !.confirm = FALSE],
   [ZeptoLocOk EXCEPT !.etaSource = "direct", !.etaText = "8 Mins"]}

\* The launch outcomes a run is checked against: only the bundled engine
\* launches, or nothing launches.  The session's own start ranges over all.
RunLaunches ==
  {[i \in 1..Len(browsers_to_try) |-> i = Len(browsers_to_try)],
   [i \in 1..Len(browsers_to_try) |-> FALSE]}

Log(msgs, key) == logs' = logs \cup {<<m, key>> : m \in msgs}

\* A loop body without the stamp.
StampNothing(res, pincode) == res

\* res["input_pincode"] = pincode
StampPincode(res, pincode) == [res EXCEPT !.input_pincode = pincode]

\* results.insert(0, res) in place of the append.
PrependResult(rs, res) == <<res>> \o rs

\* results.append(res)
AppendResult(rs, res) == Append(rs, res)

\* A loop that passes over every second pincode.
AfterPincodeSkip(i) ==
  IF i + 1 < Len(data)
  THEN pc' = "pincode" /\ pi' = i + 2 /\ ui' = 0
  ELSE pc' = "finally" /\ pi' = i /\ ui' = 0

\* The loop position after the URL loop of pincode i has ended.
AfterPincode(i) ==
  IF i < Len(data)
  THEN pc' = "pincode" /\ pi' = i + 1 /\ ui' = 0
  ELSE pc' = "finally" /\ pi' = i /\ ui' = 0

\* Lines 17-28: the input file check and read_input_excel.
ReadInput ==
  /\ pc = "begin"
  /\ IF inputState = "missing"
     THEN Log({"Input file not found"}, "") /\ pc' = "done"
     ELSE IF inputState = "unreadable"
     THEN Log({"Failed to read Excel file"}, "") /\ pc' = "done"
     ELSE IF data = <<>>
     THEN Log({"Loaded rows"}, "") /\ pc' = "done"
     ELSE Log({"Loaded rows", "Loaded URLs"}, "") /\ pc' = "start"
  /\ UNCHANGED <<inputState, data, pi, ui, playwright, browser, context, page,
                 launchLog, startError, closeCalls, stopCalls, delivery_eta, locOutcome,
                 results, written, raised, pending>>
  /\ UNCHANGED callVars

\* Lines 34-35 and 54-55: await scraper.start(), with main's global handler.
StartScraper ==
  /\ pc = "start"
  /\ \E pwOk \in BOOLEAN, launches \in RunLaunches,
        ctxOk \in BOOLEAN, pageOk \in BOOLEAN :
       LET s == Start(pwOk, launches, ctxOk, pageOk)
       IN /\ playwright' = s.playwright
          /\ browser' = s.browser
          /\ context' = s.context
          /\ page' = s.page
          /\ launchLog' = s.launchLog
          /\ startError' = s.raised
          /\ IF s.raised # "none"
             THEN /\ Log({"Global error", s.raised}, "")
                  /\ pc' = "finally" /\ pi' = 0
             ELSE /\ Log({"Launched browser"}, "")
                  /\ pc' = "pincode" /\ pi' = 1
  /\ UNCHANGED <<inputState, data, ui, closeCalls, stopCalls, delivery_eta,
                 locOutcome, results, written, raised, pending>>
  /\ UNCHANGED callVars

\* Lines 37-44: one pincode of the loop, its set_location call.
SetLocation ==
  /\ pc = "pincode"
  /\ \E l \in RunLocInputs :
       LET o == ZeptoSetLocation(delivery_eta, l)
           p == data[pi].pincode
       IN /\ delivery_eta' = o.eta
          /\ locOutcome' = [locOutcome EXCEPT ![pi] = o.outcome]
          /\ IF o.raised
             THEN Log(o.logs \cup {"Processing Pincode", "Location failed"}, p)
                  /\ AfterPincode(pi)
             ELSE /\ Log(o.logs \cup {"Processing Pincode"}, p)
                  /\ IF data[pi].urls # <<>>
                     THEN pc' = "probe" /\ ui' = 1 /\ pi' = pi
                     ELSE AfterPincode(pi)
  /\ UNCHANGED <<inputState, data, playwright, browser, context, page,
                 launchLog, startError, closeCalls, stopCalls, results, written, raised,
                 pending>>
  /\ UNCHANGED callVars

\* Lines 46-52: one URL of the pincode, its scrape_availability call.
Probe ==
  /\ pc = "probe"
  /\ \E pg \in RunZeptoPages :
       LET o == ZeptoProbe(data[pi].urls[ui], pg)
           p == data[pi].pincode
       IN IF o.raised
          THEN /\ Log(o.logs \cup {"Checking availability", "Failed URL"}, p)
               /\ results' = results
          ELSE /\ Log(o.logs \cup {"Checking availability"}, p)
               /\ results' = AppendResult(results, StampPincode(o.result, p))
  /\ IF ui < Len(data[pi].urls)
     THEN pc' = "probe" /\ ui' = ui + 1 /\ pi' = pi
     ELSE AfterPincode(pi)
  /\ UNCHANGED <<inputState, data, playwright, browser, context, page,
                 launchLog, startError, closeCalls, stopCalls, delivery_eta, locOutcome,
                 written, raised, pending>>
  /\ UNCHANGED callVars

\* The task is cancelled while main awaits a scraper call: CancelledError is no
\* Exception, so no handler of main takes it and only the finally block runs.
Interrupt ==
  /\ pc \in {"pincode", "probe"}
  /\ pending' = "cancelled"
  /\ pc' = "finally"
  /\ UNCHANGED <<inputState, data, pi, ui, playwright, browser, context, page,
                 launchLog, startError, closeCalls, stopCalls, delivery_eta, locOutcome,
                 results, logs, written, raised>>
  /\ UNCHANGED callVars

\* Lines 56-57: finally: await scraper.stop().
StopScraper ==
  /\ pc = "finally"
  /\ \E ctxOk \in BOOLEAN, brOk \in BOOLEAN, pwOk \in BOOLEAN :
       LET s == Stop(context, browser # "none", playwright, ctxOk, brOk, pwOk)
       IN /\ closeCalls' = closeCalls \cup s.calls
          /\ stopCalls' = stopCalls + 1
          /\ IF s.raised
             THEN raised' = "stop error" /\ pc' = "done"
             ELSE IF pending # "none"
             THEN raised' = pending /\ pc' = "done"
             ELSE raised' = raised /\ pc' = "save"
  /\ UNCHANGED <<inputState, data, pi, ui, playwright, browser, context, page,
                 launchLog, startError, delivery_eta, locOutcome, results, logs,
                 written, pending>>
  /\ UNCHANGED callVars

\* Lines 59-68: the output file.
SaveOutput ==
  /\ pc = "save"
  /\ IF results # <<>>
     THEN written' = results /\ Log({"Saved rows"}, "")
     ELSE written' = written /\ Log({"No results to save"}, "")
  /\ pc' = "done"
  /\ UNCHANGED <<inputState, data, pi, ui, playwright, browser, context, page,
                 launchLog, startError, closeCalls, stopCalls, delivery_eta, locOutcome,
                 results, raised, pending>>
  /\ UNCHANGED callVars

Init ==
  /\ pc = "begin"
  /\ inputState \in {"missing", "unreadable", "ok"}
  /\ data \in {read_input_excel(rows) : rows \in InputRows}
  /\ inputState # "ok" => data = <<>>
  /\ pi = 0 /\ ui = 0
  /\ playwright = FALSE /\ browser = "none" /\ context = FALSE /\ page = FALSE
  /\ launchLog = <<>> /\ startError = "none"
  /\ closeCalls = {} /\ stopCalls = 0
  /\ delivery_eta = "N/A"
  /\ locOutcome = [i \in 1..Len(data) |-> "none"]
  /\ results = <<>> /\ logs = {} /\ written = <<>>
  /\ raised = "none" /\ pending = "none"
  /\ platform = "none" /\ callIn = <<>> /\ callOut = <<>>

Next ==
  \/ ReadInput
  \/ StartScraper
  \/ SetLocation
  \/ Probe
  \/ Interrupt
  \/ StopScraper
  \/ SaveOutput

Spec == Init /\ [][Next]_vars

\* ------------------------------------- the session on its own, per platform
\* BlinkitScraper.start: super().start(), then the resource-blocking route.
BlinkitStart(pwOk, launches, ctxOk, pageOk, routeOk) ==
  LET s == Start(pwOk, launches, ctxOk, pageOk)
  IN IF s.raised = "none" /\ ~routeOk
     THEN [s EXCEPT !.raised = "route error"]
     ELSE s

\* InstamartScraper.start has its own copy of the launch loop.
RECURSIVE InstamartLaunchLoop(_, _)
InstamartLaunchLoop(launches, i) ==
  IF i > Len(browsers_to_try) THEN <<>>
  ELSE IF launches[i]
       THEN <<[channel |-> browsers_to_try[i], ok |-> TRUE]>>
       ELSE <<[channel |-> browsers_to_try[i], ok |-> FALSE]>>
              \o InstamartLaunchLoop(launches, i + 1)

InstamartStart(pwOk, launches, ctxOk, pageOk, routeOk) ==
  LET log == InstamartLaunchLoop(launches, 1)
      br  == LaunchedBrowser(log)
  IN IF ~pwOk
     THEN [playwright |-> FALSE, browser |-> "none", context |-> FALSE,
           page |-> FALSE, launchLog |-> <<>>, raised |-> "playwright error"]
     ELSE IF br = "none"
     THEN [playwright |-> TRUE, browser |-> "none", context |-> FALSE,
           page |-> FALSE, launchLog |-> log, raised |-> "launch error"]
     ELSE IF ~ctxOk
     THEN [playwright |-> TRUE, browser |-> br, context |-> FALSE,
           page |-> FALSE, launchLog |-> log, raised |-> "context error"]
     ELSE IF ~pageOk
     THEN [playwright |-> TRUE, browser |-> br, context |-> TRUE,
           page |-> FALSE, launchLog |-> log, raised |-> "context error"]
     ELSE [playwright |-> TRUE, browser |-> br, context |-> TRUE,
           page |-> TRUE, launchLog |-> log,
           raised |-> IF routeOk THEN "none" ELSE "route error"]

StartInputs ==
  [pwOk : BOOLEAN, launches : [1..Len(browsers_to_try) -> BOOLEAN],
   ctxOk : BOOLEAN, pageOk : BOOLEAN, routeOk : BOOLEAN]

StartOf(pf, in) ==
  IF pf = "zepto" THEN Start(in.pwOk, in.launches, in.ctxOk, in.pageOk)
  ELSE IF pf = "blinkit"
  THEN BlinkitStart(in.pwOk, in.launches, in.ctxOk, in.pageOk, in.routeOk)
  ELSE InstamartStart(in.pwOk, in.launches, in.ctxOk, in.pageOk, in.routeOk)

\* scraper.start() on a fresh scraper of the platform.
SessionStart ==
  /\ pc = "session"
  /\ \E in \in StartInputs :
       LET s == StartOf(platform, in)
       IN /\ playwright' = s.playwright
          /\ browser' = s.browser
          /\ context' = s.context
          /\ page' = s.page
          /\ launchLog' = s.launchLog
          /\ startError' = s.raised
          /\ callIn' = in
  /\ pc' = "started"
  /\ UNCHANGED <<inputState, data, pi, ui, closeCalls, stopCalls, delivery_eta,
                 locOutcome, results, logs, written, raised, pending,
                 platform, callOut>>

\* scraper.stop(), which a caller may invoke again.
SessionStop ==
  /\ pc \in {"started", "stopped"}
  /\ stopCalls < 2
  /\ \E ctxOk \in BOOLEAN, brOk \in BOOLEAN, pwOk \in BOOLEAN :
       LET s == Stop(context, browser # "none", playwright, ctxOk, brOk, pwOk)
       IN /\ closeCalls' = closeCalls \cup s.calls
          /\ callOut' = [raised |-> s.raised, calls |-> s.calls]
  /\ stopCalls' = stopCalls + 1
  /\ pc' = "stopped"
  /\ UNCHANGED <<inputState, data, pi, ui, playwright, browser, context, page,
                 launchLog, startError, delivery_eta, locOutcome, results,
                 logs, written, raised, pending, platform, callIn>>

InitSession ==
  /\ pc = "session"
  /\ inputState = "ok" /\ data = <<>>
  /\ pi = 0 /\ ui = 0
  /\ playwright = FALSE /\ browser = "none" /\ context = FALSE /\ page = FALSE
  /\ launchLog = <<>> /\ startError = "none"
  /\ closeCalls = {} /\ stopCalls = 0
  /\ delivery_eta = "N/A"
  /\ locOutcome = <<>>
  /\ results = <<>> /\ logs = {} /\ written = <<>>
  /\ raised = "none" /\ pending = "none"
  /\ platform \in Platforms /\ callIn = <<>> /\ callOut = <<>>

NextSession ==
  \/ SessionStart
  \/ SessionStop

SpecSession == InitSession /\ [][NextSession]_vars

\* ------------------------------------------ one probe on its own, per platform
ZeptoProbeCall ==
  /\ pc = "call"
  /\ \E u \in Urls, pg \in ZeptoPages :
       /\ callIn' = [url |-> u, page |-> pg]
       /\ callOut' = ZeptoProbe(u, pg)
  /\ platform' = "zepto"
  /\ pc' = "probed"
  /\ UNCHANGED <<inputState, data, pi, ui, playwright, browser, context, page,
                 launchLog, startError, closeCalls, stopCalls, delivery_eta,
                 locOutcome, results, logs, written, raised, pending>>

BlinkitProbeCall ==
  /\ pc = "call"
  /\ \E u \in Urls, pg \in BlinkitPages :
       /\ callIn' = [url |-> u, page |-> pg]
       /\ callOut' = BlinkitProbe(u, pg)
  /\ platform' = "blinkit"
  /\ pc' = "probed"
  /\ UNCHANGED <<inputState, data, pi, ui, playwright, browser, context, page,
                 launchLog, startError, closeCalls, stopCalls, delivery_eta,
                 locOutcome, results, logs, written, raised, pending>>

InstamartProbeCall ==
  /\ pc = "call"
  /\ \E u \in Urls, pg \in InstamartPages :
       /\ callIn' = [url |-> u, page |-> pg]
       /\ callOut' = InstamartProbe(u, pg)
  /\ platform' = "instamart"
  /\ pc' = "probed"
  /\ UNCHANGED <<inputState, data, pi, ui, playwright, browser, context, page,
                 launchLog, startError, closeCalls, stopCalls, delivery_eta,
                 locOutcome, results, logs, written, raised, pending>>

InitCall ==
  /\ pc = "call"
  /\ inputState = "ok" /\ data = <<>>
  /\ pi = 0 /\ ui = 0
  /\ playwright = TRUE /\ browser = "bundled" /\ context = TRUE /\ page = TRUE
  /\ launchLog = <<[channel |-> "msedge", ok |-> FALSE],
                   [channel |-> "chrome", ok |-> FALSE],
                   [channel |-> "bundled", ok |-> TRUE]>>
  /\ startError = "none"
  /\ closeCalls = {} /\ stopCalls = 0
  /\ delivery_eta = "N/A"
  /\ locOutcome = <<>>
  /\ results = <<>> /\ logs = {} /\ written = <<>>
  /\ raised = "none" /\ pending = "none"
  /\ platform = "none" /\ callIn = <<>> /\ callOut = <<>>

NextProbe ==
  \/ ZeptoProbeCall
  \/ BlinkitProbeCall
  \/ InstamartProbeCall

SpecProbe == InitCall /\ [][NextProbe]_vars

\* ====================================================== the probe's claims
\* The selected Zepto object makes the JSON block raise.
ZeptoJsonRaises(url, p) ==
  LET cands == ZeptoCandidates(p.anchors)
      sel   == ZeptoSelect(url, cands)
  IN sel # 0 /\ (cands[sel].sp = -1 \/ HasBad(cands[sel].variants))

\* A Product script of the Instamart page makes its block raise.
InstamartJsonRaises(p) ==
  \E i \in 1..Len(p.scripts) :
    LET sc == p.scripts[i]
    IN /\ sc.parses /\ sc.type = "Product" /\ sc.offers = "dict"
       /\ sc.price = -1 \/ sc.availability = "bad"
       /\ \A j \in 1..(i - 1) :
            ~(p.scripts[j].parses /\ p.scripts[j].type = "Product"
                /\ InstamartFill(InstamartDefault("u1"), p.scripts[j]).done)

\* A page step whose failure reaches the probe's outer handler.
RecordedFailure(pf, url, p) ==
  IF pf = "zepto"
  THEN ~p.goto \/ p.content = "fail" \/ (p.content = "ok" /\ ~p.body)
  ELSE IF pf = "blinkit"
  THEN \/ ~p.goto \/ p.content = "fail" \/ ~p.body
       \/ LET t == BlinkitTarget(url, p.anchors)
          IN t # 0 /\ BlinkitFill(BlinkitDefault(url), p.anchors[t]).raises
  ELSE ~p.goto \/ ~p.body

\* A page step that fails inside a handler of its own, on a page where no
\* step reaches the outer handler.
SwallowedFailure(pf, url, p) ==
  /\ ~RecordedFailure(pf, url, p)
  /\ IF pf = "zepto"
     THEN /\ p.content = "ok"
          /\ \/ ZeptoJsonRaises(url, p)
             \/ \E i \in 1..Len(p.anchors) : ~p.anchors[i].decodes
             \/ p.chips = -1
             \/ (p.h1 = "fail" /\ ZeptoSelect(url, ZeptoCandidates(p.anchors)) = 0)
     ELSE IF pf = "blinkit"
     THEN \/ ~p.seeMore
          \/ ~p.variants
          \/ (p.h1 = "fail" /\ BlinkitTarget(url, p.anchors) = 0)
          \/ /\ UrlId(url) # "none"
             /\ \E i \in 1..Len(p.anchors) :
                  /\ ~p.anchors[i].decodes
                  /\ BlinkitTarget(url, p.anchors) \in {0} \cup (i + 1)..Len(p.anchors)
     ELSE \/ ~p.ldQuery
          \/ p.containers = -1
          \/ (p.ldQuery /\ InstamartJsonRaises(p))

\* C1: a probe result with an error never carries a confident stock status:
\* its availability is Unknown, Error or Not Found.
C1_ErrorMeansNoStockStatus ==
  (pc = "probed" /\ callOut.result.error # None) =>
     callOut.result.availability \in {"Unknown", "Error", "Not Found"}

\* C2 as stated: the probe never raises, and every failed page step is
\* recorded in the result's error field.
C2_EveryFailureRecorded ==
  pc = "probed" =>
    /\ ~callOut.raised
    /\ (RecordedFailure(platform, callIn.url, callIn.page)
          \/ SwallowedFailure(platform, callIn.url, callIn.page))
         => callOut.result.error # None

\* C2 amended: the probe never raises and returns a result for its URL; a
\* failed navigation, content read or body-text read (and, on Blinkit, a
\* number conversion of the matched object) is recorded in the error field,
\* while a failure inside the JSON scan, the heading read, the details
\* expansion or the variant query is swallowed and leaves the error null.
C2_ProbeNeverRaises ==
  pc = "probed" =>
    /\ ~callOut.raised
    /\ callOut.result.url = callIn.url
    /\ RecordedFailure(platform, callIn.url, callIn.page)
         => callOut.result.error = "exception"
    /\ SwallowedFailure(platform, callIn.url, callIn.page)
         => callOut.result.error = None

C2_Witness ==
  /\ pc = "probed" /\ platform = "zepto"
  /\ callIn.page.goto /\ callIn.page.content = "ok" /\ ~callIn.page.body
  /\ ZeptoJsonRaises(callIn.url, callIn.page)
  /\ ~callOut.raised /\ callOut.result.error = "exception"

C2_WitnessSwallowed ==
  /\ pc = "probed" /\ platform = "instamart"
  /\ callIn.page.containers = -1 /\ callOut.result.error = None

\* ------------------------------- one assortment scan on its own, per platform
ZeptoAssortmentCall ==
  /\ pc = "call"
  /\ \E u \in CategoryUrls, pg \in ZeptoListPages :
       LET o == ZeptoAssortment(delivery_eta, u, "560001", pg)
       IN /\ callIn' = [url |-> u, page |-> pg]
          /\ callOut' = o
          /\ delivery_eta' = o.eta
  /\ platform' = "zepto"
  /\ pc' = "scanned"
  /\ UNCHANGED <<inputState, data, pi, ui, playwright, browser, context, page,
                 launchLog, startError, closeCalls, stopCalls, locOutcome,
                 results, logs, written, raised, pending>>

BlinkitAssortmentCall ==
  /\ pc = "call"
  /\ \E u \in CategoryUrls, pg \in BlinkitListPages :
       LET o == BlinkitAssortment(delivery_eta, u, "560001", pg)
       IN /\ callIn' = [url |-> u, page |-> pg]
          /\ callOut' = o
          /\ delivery_eta' = o.eta
  /\ platform' = "blinkit"
  /\ pc' = "scanned"
  /\ UNCHANGED <<inputState, data, pi, ui, playwright, browser, context, page,
                 launchLog, startError, closeCalls, stopCalls, locOutcome,
                 results, logs, written, raised, pending>>

InstamartAssortmentCall ==
  /\ pc = "call"
  /\ \E u \in CategoryUrls, pg \in InstamartListPages :
       LET o == InstamartAssortment(delivery_eta, u, "560001", pg)
       IN /\ callIn' = [url |-> u, page |-> pg]
          /\ callOut' = o
          /\ delivery_eta' = o.eta
  /\ platform' = "instamart"
  /\ pc' = "scanned"
  /\ UNCHANGED <<inputState, data, pi, ui, playwright, browser, context, page,
                 launchLog, startError, closeCalls, stopCalls, locOutcome,
                 results, logs, written, raised, pending>>

\* A started session whose ETA is unknown or was captured by a set_location.
InitAssortment ==
  /\ pc = "call"
  /\ inputState = "ok" /\ data = <<>>
  /\ pi = 0 /\ ui = 0
  /\ playwright = TRUE /\ browser = "bundled" /\ context = TRUE /\ page = TRUE
  /\ launchLog = <<[channel |-> "msedge", ok |-> FALSE],
                   [channel |-> "chrome", ok |-> FALSE],
                   [channel |-> "bundled", ok |-> TRUE]>>
  /\ startError = "none"
  /\ closeCalls = {} /\ stopCalls = 0
  /\ delivery_eta \in {"N/A", "8 mins"}
  /\ locOutcome = <<>>
  /\ results = <<>> /\ logs = {} /\ written = <<>>
  /\ raised = "none" /\ pending = "none"
  /\ platform = "none" /\ callIn = <<>> /\ callOut = <<>>

NextAssortment ==
  \/ ZeptoAssortmentCall
  \/ BlinkitAssortmentCall
  \/ InstamartAssortmentCall

SpecAssortment == InitAssortment /\ [][NextAssortment]_vars

\* ================================================= the assortment's claims
\* C10: an assortment scan returns its (possibly empty) items and never
\* raises, whichever page step fails.
C10_AssortmentNeverRaises ==
  pc = "scanned" => ~callOut.raised

\* ======================================================== the run's claims
ResultsFor(p) == SelectSeq(results, LAMBDA r : r.input_pincode = p)

UrlsOf(rs) == [k \in 1..Len(rs) |-> rs[k].url]

IsPrefix(s, t) == Len(s) <= Len(t) /\ \A k \in 1..Len(s) : s[k] = t[k]

Acquired ==
  (IF playwright THEN {"playwright"} ELSE {})
    \cup (IF browser # "none" THEN {"browser"} ELSE {})
    \cup (IF context THEN {"context"} ELSE {})

\* The pincode/URL loop ran to its end: the session started and no
\* cancellation cut the loop short.
LoopDone ==
  /\ pc \in {"finally", "save", "done"}
  /\ startError = "none"
  /\ pending = "none"
  /\ inputState = "ok"

\* C3: when set_location ends in Failed for a pincode, none of that pincode's
\* URLs is probed: no result carries the pincode.
C3_FailedPincodeSkipped ==
  \A i \in 1..Len(data) :
    locOutcome[i] = "Failed" => ResultsFor(data[i].pincode) = <<>>

\* C4: when a run has ended, stop() was invoked and called the release of every
\* resource the session had acquired, whether an earlier release failed or not.
C4_AllReleasedOnExit ==
  pc = "done" => (Acquired # {} => stopCalls >= 1) /\ Acquired \subseteq closeCalls

\* C5: the launch attempts follow the fixed order msedge, chrome, bundled; no
\* configuration is attempted after one has launched, which is the browser
\* used; when none launches, start ends with the launch error and neither a
\* context nor a page exists.
C5_LaunchOrder ==
  /\ IsPrefix([k \in 1..Len(launchLog) |-> launchLog[k].channel], browsers_to_try)
  /\ \A k \in 1..Len(launchLog) : launchLog[k].ok => k = Len(launchLog)
  /\ browser # "none" =>
       /\ launchLog # <<>>
       /\ Last(launchLog).ok
       /\ browser = Last(launchLog).channel
  /\ (launchLog # <<>> /\ ~Last(launchLog).ok) =>
       /\ Len(launchLog) = Len(browsers_to_try)
       /\ startError = "launch error"
       /\ browser = "none" /\ ~context /\ ~page

C5_Witness ==
  /\ platform = "instamart"
  /\ browser = "chrome"
  /\ launchLog = <<[channel |-> "msedge", ok |-> FALSE],
                   [channel |-> "chrome", ok |-> TRUE]>>
  /\ page

C5_WitnessNoneLaunches ==
  /\ Len(launchLog) = 3 /\ startError = "launch error" /\ pc = "stopped"

C7_ResultsInInputOrder ==
  \A i \in 1..Len(data) :
    IsPrefix(UrlsOf(ResultsFor(data[i].pincode)), data[i].urls)

C7_Witness ==
  \E i \in 1..Len(data) :
    /\ data[i].urls = <<"u2", "u1">>
    /\ Len(ResultsFor(data[i].pincode)) = 2
    /\ i > 1

\* C8 as stated: a run ends with exactly one result per (pincode, URL) pair.
C8_ExactlyOnePerPair ==
  pc = "done" =>
    \A i \in 1..Len(data) : \A k \in 1..Len(data[i].urls) :
      Cardinality({n \in 1..Len(results) :
                     /\ results[n].input_pincode = data[i].pincode
                     /\ results[n].url = data[i].urls[k]}) = 1

\* C8 amended: once the pincode loop has run to its end, the results hold one
\* result per row of the input (a URL listed twice under a pincode has two),
\* each stamped with the pincode and URL it was probed for; and the results
\* list only ever grows by an append at its end.
C8_OneResultPerRow ==
  /\ [](LoopDone =>
          \A i \in 1..Len(data) :
            UrlsOf(ResultsFor(data[i].pincode)) = data[i].urls)
  /\ [](\A n \in 1..Len(results) :
          \E i \in 1..Len(data) : results[n].input_pincode = data[i].pincode)
  /\ [][results' # results =>
          /\ pc = "probe"
          /\ Len(results') = Len(results) + 1
          /\ \A n \in 1..Len(results) : results'[n] = results[n]
          /\ Last(results').input_pincode = data[pi].pincode
          /\ Last(results').url = data[pi].urls[ui]]_vars

C8_Witness ==
  /\ pc = "done" /\ LoopDone
  /\ \E i \in 1..Len(data) :
       /\ data[i].urls = <<"u1", "u1">>
       /\ Len(ResultsFor(data[i].pincode)) = 2
  /\ written = results

\* C9: a run that has ended has written every result it accumulated, and when
\* it wrote no rows a cause was logged.
C9_PartialOutputWritten ==
  pc = "done" => written = results /\ (written = <<>> => logs # {})

\* ==================================================== the session's claims
\* C11: a second stop() after a first stop() that closed the context, the
\* browser and the driver does not fail and closes nothing again.
C11_SecondStopIsNoOp ==
  [][(/\ pc = "stopped" /\ stopCalls = 1
      /\ ~callOut.raised
      /\ callOut.calls = {"context", "browser", "playwright"}
      /\ stopCalls' = 2)
       => (~callOut'.raised /\ callOut'.calls = {})]_vars

\* ------------------------------------ one set_location call, per platform
ZeptoLocationCall ==
  /\ pc = "call"
  /\ \E l \in ZeptoLocInputs :
       LET o == ZeptoSetLocation(delivery_eta, l)
       IN /\ callIn' = [pincode |-> "560001", page |-> l, eta |-> delivery_eta]
          /\ callOut' = o
          /\ delivery_eta' = o.eta
  /\ platform' = "zepto"
  /\ pc' = "located"
  /\ UNCHANGED <<inputState, data, pi, ui, playwright, browser, context, page,
                 launchLog, startError, closeCalls, stopCalls, locOutcome,
                 results, logs, written, raised, pending>>

BlinkitLocationCall ==
  /\ pc = "call"
  /\ \E l \in BlinkitLocInputs :
       LET o == BlinkitSetLocation(delivery_eta, l)
       IN /\ callIn' = [pincode |-> "560001", page |-> l, eta |-> delivery_eta]
          /\ callOut' = o
          /\ delivery_eta' = o.eta
  /\ platform' = "blinkit"
  /\ pc' = "located"
  /\ UNCHANGED <<inputState, data, pi, ui, playwright, browser, context, page,
                 launchLog, startError, closeCalls, stopCalls, locOutcome,
                 results, logs, written, raised, pending>>

InstamartLocationCall ==
  /\ pc = "call"
  /\ \E l \in InstamartLocInputs :
       LET o == InstamartSetLocation(delivery_eta, l)
       IN /\ callIn' = [pincode |-> "560001", page |-> l, eta |-> delivery_eta]
          /\ callOut' = o
          /\ delivery_eta' = o.eta
  /\ platform' = "instamart"
  /\ pc' = "located"
  /\ UNCHANGED <<inputState, data, pi, ui, playwright, browser, context, page,
                 launchLog, startError, closeCalls, stopCalls, locOutcome,
                 results, logs, written, raised, pending>>

NextLocation ==
  \/ ZeptoLocationCall
  \/ BlinkitLocationCall
  \/ InstamartLocationCall

\* A started session, as for the assortment scans.
SpecLocation == InitAssortment /\ [][NextLocation]_vars

\* =================================================== the location's claims
\* The values a digits-plus-min(s) parse can give.
DigitsMinValues == {"8 mins", "12 mins", "8 min", "8 Mins", "8 minutes"}

\* C16 (set_location): after a set_location call the session's ETA is the
\* value held before the call or a parsed digits-plus-min(s) value.
C16_LocationKeepsOrParsesEta ==
  pc = "located" => delivery_eta \in {callIn.eta} \cup DigitsMinValues

\* C16 (assortment scan): a scan changes the session's ETA only to a parsed
\* digits-plus-min(s) value; without a match the previous value is retained.
C16_EtaRetainedWithoutMatch ==
  [][delivery_eta' # delivery_eta => delivery_eta' \in DigitsMinValues]_vars

\* C17: a set_location call whose suggestion list never shows ends in Failed,
\* and Confirmed is reached only after a suggestion was clicked.
C17_NoSuggestionMeansFailed ==
  pc = "located" =>
    /\ callIn.page.sugg = "timeout" => callOut.outcome = "Failed"
    /\ callOut.outcome = "Confirmed" => callOut.clicked

\* C18: the triggers are tried in their fixed order and the first that works
\* is used; when no trigger works the call ends in Failed with the screenshot
\* attempted and the postal code is never filled.
C18_NoTriggerMeansFailed ==
  pc = "located" =>
    /\ (callOut.triggersTried # <<>> /\ callOut.trigger # "none")
         => callOut.trigger = Last(callOut.triggersTried)
    /\ (callIn.page.goto /\ callOut.trigger = "none")
         => /\ callOut.outcome = "Failed"
            /\ callOut.screenshotTried
            /\ ~callOut.filled

\* C19: set_location returns and never raises, whichever step fails and even
\* when the diagnostics of the failure path fail.
C19_LocationNeverRaises ==
  pc = "located" => ~callOut.raised

C19_Witness ==
  /\ pc = "located" /\ platform = "instamart"
  /\ callIn.page.goto /\ ~callIn.page.preShot
  /\ ~callIn.page.screenshot
  /\ callOut.outcome = "Failed" /\ callOut.screenshotTried
  /\ ~callOut.raised

\* ================================== the assortment's claims on its records
\* The anchors of a Zepto or Blinkit page that decode to an object.
DecodedPair(anchors) ==
  Len(anchors) = 2 /\ anchors[1].decodes /\ anchors[2].decodes

\* Two records that differ in nothing but the mrp, which one of them lacks.
SameButMrp(x, y) ==
  /\ [x EXCEPT !.mrp = y.mrp] = y
  /\ (x.mrp = 0 /\ y.mrp > 0) \/ (x.mrp > 0 /\ y.mrp = 0)

\* C12: of two candidates sharing an identifier, one with an mrp and one
\* without, the scan emits one item and it carries the mrp, whichever of the
\* two comes first in the page.
C12_DedupOrderIndependent ==
  (/\ pc = "scanned" /\ platform \in {"zepto", "blinkit"}
   /\ callOut.strategies # <<>>
   /\ DecodedPair(callIn.page.anchors)
   /\ SameButMrp(callIn.page.anchors[1], callIn.page.anchors[2])
   /\ callIn.page.anchors[1].name = "Milk")
    => /\ Len(callOut.items) = 1
       /\ callOut.items[1].mrp > 0

\* C13: no two items of one scan carry the same base_product_id.
C13_UniqueProductIds ==
  pc = "scanned" =>
    \A i, j \in 1..Len(callOut.items) :
      i # j => callOut.items[i].base_product_id
                 # callOut.items[j].base_product_id

\* The availability the two signals of a record call for.
\* Zepto's flag is isSoldOut, Blinkit's is unavailable_quantity == 1.
ExpectedAvailability(pf, o) ==
  IF o.inventory = 0 \/ (IF pf = "zepto" THEN o.isSoldOut ELSE o.unavailable)
  THEN "Out of Stock" ELSE "In Stock"

\* C14 (assortment scan): the item of a page's only record is Out of Stock
\* when the record has inventory 0 or the out-of-stock flag, else In Stock.
C14_AvailabilityFromSignals ==
  (/\ pc = "scanned" /\ platform \in {"zepto", "blinkit"}
   /\ Len(callIn.page.anchors) = 1 /\ Len(callOut.items) = 1)
    => callOut.items[1].availability
         = ExpectedAvailability(platform, callIn.page.anchors[1])

\* C20: when the scan of the embedded JSON (or JSON-LD) yields no records on
\* a page that shows product cards, a further strategy is attempted and
\* supplies the page's items.
C20_NextStrategyAttempted ==
  (/\ pc = "scanned" /\ callOut.strategies # <<>>
   /\ callIn.page.cards > 0
   /\ IF platform = "instamart" THEN callIn.page.scripts = <<>>
      ELSE callIn.page.anchors = <<>>)
    => /\ Len(callOut.strategies) > 1
       /\ callOut.items # <<>>

\* ==================================== the probe's claims on its candidate
\* A Zepto anchor that becomes a candidate: it decodes and has id and name.
IsZeptoCandidate(a) == a.decodes /\ a.id # "" /\ a.name # ""

\* Anchor i is the first candidate carrying the URL's identifier.
ZeptoIdMatch(url, as, i) ==
  /\ IsZeptoCandidate(as[i]) /\ as[i].id = UrlId(url)
  /\ \A j \in 1..(i - 1) : ~(IsZeptoCandidate(as[j]) /\ as[j].id = UrlId(url))

\* Anchor i is the first of the largest candidates.
ZeptoLargest(as, i) ==
  /\ IsZeptoCandidate(as[i])
  /\ \A j \in 1..Len(as) : IsZeptoCandidate(as[j]) => as[j].size <= as[i].size
  /\ \A j \in 1..(i - 1) : IsZeptoCandidate(as[j]) => as[j].size < as[i].size

\* Anchor i is the first object carrying the URL's product id.
BlinkitIdMatch(url, as, i) ==
  /\ as[i].decodes /\ as[i].product_id = UrlId(url)
  /\ \A j \in 1..(i - 1) : ~(as[j].decodes /\ as[j].product_id = UrlId(url))

C15_WitnessZepto ==
  /\ pc = "probed" /\ platform = "zepto" /\ callOut.result.error = None
  /\ Len(callIn.page.anchors) = 2
  /\ ZeptoIdMatch(callIn.url, callIn.page.anchors, 2)
  /\ ZeptoLargest(callIn.page.anchors, 1)
  /\ callIn.page.anchors[1].isSoldOut /\ ~callIn.page.anchors[2].isSoldOut
  /\ callOut.result.availability = "In Stock"

\* ============================ the assortment's claims on skipped candidates
\* The key a scan stores a record under: Zepto the name, Blinkit the id.
RecordKey(pf, o) == IF pf = "zepto" THEN o.name ELSE o.product_id

\* The record decodes to an object the scan accepts.
Accepted(pf, o) ==
  o.decodes /\ (pf = "zepto" => o.id # "" /\ o.name # "")

\* The record's prices parse.
PricesParse(pf, o) ==
  IF pf = "zepto" THEN o.sp # -1 /\ o.mrp # -1
  ELSE o.price # -1 /\ o.mrp # -1

\* The produce filter of the Zepto scan drops the record.
Filtered(pf, url, o) ==
  pf = "zepto" /\ IsProduce(CategoryOf(url)) /\ HasBadKeyword(o.name)

\* An item of the scan emitted for the record's key.
EmittedFor(pf, items, o) ==
  \E k \in 1..Len(items) :
    IF pf = "zepto" THEN items[k].name = o.name
    ELSE items[k].base_product_id = o.product_id

\* C21: a decode failure at one anchor does not end the scan: every accepted
\* record of the page is emitted, whatever anchors failed to decode before it
\* (provided the records stored under its key have prices that parse).
C21_BadAnchorSkippedAlone ==
  (/\ pc = "scanned" /\ platform \in {"zepto", "blinkit"}
   /\ callOut.strategies # <<>>)
    => \A i \in 1..Len(callIn.page.anchors) :
         LET as == callIn.page.anchors
         IN (/\ Accepted(platform, as[i])
             /\ ~Filtered(platform, callIn.url, as[i])
             /\ \A j \in 1..Len(as) :
                  (Accepted(platform, as[j])
                     /\ RecordKey(platform, as[j]) = RecordKey(platform, as[i]))
                    => PricesParse(platform, as[j]))
              => EmittedFor(platform, callOut.items, as[i])

C21_Witness ==
  /\ pc = "scanned" /\ platform = "zepto"
  /\ Len(callIn.page.anchors) = 2
  /\ ~callIn.page.anchors[1].decodes
  /\ Accepted("zepto", callIn.page.anchors[2])
  /\ Len(callOut.items) = 1
  /\ callOut.items[1].name = callIn.page.anchors[2].name


\* C22: a candidate whose price does not parse is skipped alone: every other
\* candidate of the page, later ones of the same markup block included, is
\* emitted.
C22_BadPriceSkippedAlone ==
  /\ C21_BadAnchorSkippedAlone
  /\ (/\ pc = "scanned" /\ platform = "instamart"
      /\ callIn.page.goto /\ callIn.page.ldQuery)
       => \A s \in 1..Len(callIn.page.scripts) :
            LET sc == callIn.page.scripts[s]
            IN sc.parses
                 => \A i \in 1..Len(sc.items) :
                      (sc.items[i].type = "Product"
                         /\ ~InstamartItemRaises(sc.items[i]))
                        => \E k \in 1..Len(callOut.items) :
                             callOut.items[k].base_product_id
                               = InstamartId(sc.items[i])


\* C23: when the Zepto scan finds the not-found interstitial, or the home URL
\* after a deep link was requested, the recovery click on the link of the URL's
\* keyword is attempted before any extraction; when the click fails the scan
\* returns no record, extracts nothing and does not raise.
C23_RecoveryBeforeExtraction ==
  (/\ pc = "scanned" /\ platform = "zepto"
   /\ \/ callIn.page.check = "404"
      \/ callIn.page.check = "ok" /\ callIn.page.loaded = "home")
    => /\ callOut.keyword = ZeptoKeyword(callIn.url)
       /\ ~callOut.raised
       /\ callOut.scanned \in {"recovery", "nothing"}
       /\ ~callIn.page.recovery
            => /\ callOut.items = <<>>
               /\ callOut.scanned = "nothing"
               /\ callOut.strategies = <<>>
               /\ "Smart Navigation failed" \in callOut.logs

C23_Witness ==
  /\ pc = "scanned" /\ platform = "zepto"
  /\ callIn.page.check = "ok" /\ callIn.page.loaded = "home"
  /\ ~callIn.page.recovery /\ callIn.page.content
  /\ Len(callIn.page.anchors) = 1
  /\ Accepted("zepto", callIn.page.anchors[1])
  /\ PricesParse("zepto", callIn.page.anchors[1])
  /\ callOut.items = <<>>
  /\ callOut.keyword = "fresh-vegetables"


\* ================================================ the probes' claims on fields
\* C24: when the JSON source yields no name, a probe that ends without an
\* error takes the name from the page's top-level heading when there is one:
\* the name is not left at "N/A".
C24_NameFromHeading ==
  (/\ pc = "probed" /\ platform \in {"zepto", "blinkit"}
   /\ callOut.result.error = None
   /\ callIn.page.h1 \notin {"fail", "none"})
    => callOut.result.name # "N/A"


\* The object the Zepto probe of the call selected, 0 when none.
ZeptoSelected ==
  ZeptoSelect(callIn.url, ZeptoCandidates(callIn.page.anchors))

\* C25: a manufacturer the JSON source supplies is the manufacturer of the
\* result: the labelled section of the DOM is used only when the JSON source
\* supplied none.
C25_JsonMetadataWins ==
  (/\ pc = "probed" /\ platform = "zepto"
   /\ callIn.page.goto /\ callIn.page.content = "ok" /\ callIn.page.body
   /\ ZeptoSelected # 0)
    => LET o == ZeptoCandidates(callIn.page.anchors)[ZeptoSelected]
       IN o.manufacturer # None
            => callOut.result.manufacturer_details = o.manufacturer


\* The probe's page showed an explicit variant selector in the DOM.
VariantSelectorFound ==
  /\ platform = "zepto" => callIn.page.chips > 0
  /\ platform = "instamart" => callIn.page.containers > 0
  /\ platform = "blinkit" => FALSE

\* C26: in every probe result the two variant counts are 1 and 1 unless a
\* variant selector was found in the DOM.
C26_VariantCountsDefault ==
  (pc = "probed" /\ ~VariantSelectorFound)
    => /\ callOut.result.variant_count = 1
       /\ callOut.result.variant_in_stock_count = 1


EtaPincodes == <<"560001", "110001">>

\* Location flows that differ in where they end and in what the ETA element
\* shows.
EtaZeptoLocs ==
  {[ZeptoLocOk EXCEPT !.etaSource = s, !.etaText = t] :
     s \in {"direct", "none"}, t \in EtaTexts}
    \cup {[ZeptoLocOk EXCEPT !.goto = FALSE]}

EtaBlinkitLocs ==
  [goto : BOOLEAN, barVisible : {TRUE}, textVisible : {TRUE}, click : {TRUE},
   modal : {TRUE}, fill : {TRUE}, sugg : {"first"}, hidden : {TRUE},
   etaEl : {"found", "absent"}, etaText : EtaTexts, screenshot : {TRUE}]

\* The ETA a set_location call captured ("Captured ... ETA" was logged),
\* "N/A" when it captured none.
Captured(o) ==
  IF /\ o.outcome = "Confirmed"
     /\ o.logs \cap {"Could not parse ETA", "ETA regex mismatch",
                     "ETA Element not found", "Could not extract ETA"} = {}
  THEN o.eta ELSE "N/A"

\* One more set_location call of the session, for the next pincode; locOutcome
\* keeps, call by call, the pincode and the ETA captured for it.
EtaLocated(pf, l, o) ==
  /\ pc \in {"call", "located"}
  /\ platform \in {"none", pf}
  /\ Len(locOutcome) < Len(EtaPincodes)
  /\ callIn' = [pincode |-> EtaPincodes[Len(locOutcome) + 1], page |-> l,
                eta |-> delivery_eta]
  /\ callOut' = o
  /\ delivery_eta' = o.eta
  /\ locOutcome' = Append(locOutcome,
                     [pincode |-> EtaPincodes[Len(locOutcome) + 1],
                      captured |-> Captured(o)])
  /\ platform' = pf
  /\ pc' = "located"
  /\ UNCHANGED <<inputState, data, pi, ui, playwright, browser, context, page,
                 launchLog, startError, closeCalls, stopCalls, results, logs,
                 written, raised, pending>>

ZeptoEtaLocate ==
  \E l \in EtaZeptoLocs :
    EtaLocated("zepto", l, ZeptoSetLocation(delivery_eta, l))

BlinkitEtaLocate ==
  \E l \in EtaBlinkitLocs :
    EtaLocated("blinkit", l, BlinkitSetLocation(delivery_eta, l))

\* The scan that follows the calls, under the pincode of the last of them.
EtaScanned(pf, u, pg, o) ==
  /\ pc = "located"
  /\ platform = pf
  /\ callIn' = [url |-> u, page |-> pg]
  /\ callOut' = o
  /\ results' = o.items
  /\ delivery_eta' = o.eta
  /\ pc' = "scanned"
  /\ UNCHANGED <<inputState, data, pi, ui, playwright, browser, context, page,
                 launchLog, startError, closeCalls, stopCalls, locOutcome,
                 logs, written, raised, pending, platform>>

ZeptoEtaScan ==
  \E u \in CategoryUrls, a \in ZeptoListObjects :
    LET pg == [ZeptoListPageOk EXCEPT !.anchors = <<a>>]
    IN EtaScanned("zepto", u, pg,
         ZeptoAssortment(delivery_eta, u, Last(locOutcome).pincode, pg))

BlinkitEtaScan ==
  \E u \in CategoryUrls, a \in BlinkitListObjects :
    LET pg == [goto |-> TRUE, content |-> TRUE, screenshot |-> TRUE,
               cards |-> 0, anchors |-> <<a>>]
    IN EtaScanned("blinkit", u, pg,
         BlinkitAssortment(delivery_eta, u, Last(locOutcome).pincode, pg))

\* A session as constructed: delivery_eta is "N/A".
InitEta == InitAssortment /\ delivery_eta = "N/A"

NextEta ==
  \/ ZeptoEtaLocate
  \/ BlinkitEtaLocate
  \/ ZeptoEtaScan
  \/ BlinkitEtaScan

SpecEta == InitEta /\ [][NextEta]_vars

\* C28: the ETA of every record of a scan is the value captured by the most
\* recent set_location call or "N/A", never a value captured for an earlier
\* pincode.
C28_EtaOfCurrentPincode ==
  pc = "scanned"
    => \A k \in 1..Len(results) :
         /\ results[k].pincode_input = Last(locOutcome).pincode
         /\ results[k].eta \in {Last(locOutcome).captured, "N/A"}


\* C29: a scan emits records only from the page of the requested category URL
\* or of the recovery link derived from it, never from another page the
\* session had loaded when the scan was called.
C29_ScansRequestedPage ==
  (pc = "scanned" /\ callOut.items # <<>>)
    => callOut.scanned \in {"category", "recovery"}


\* C30: in every probe result where both counts are set, the in-stock count
\* lies between 0 and the variant count.
C30_InStockWithinCount ==
  (/\ pc = "probed"
   /\ callOut.result.variant_count # NoneInt
   /\ callOut.result.variant_in_stock_count # NoneInt)
    => /\ 0 <= callOut.result.variant_in_stock_count
       /\ callOut.result.variant_in_stock_count <= callOut.result.variant_count

====
